---- MODULE Spec2Model ----
(***************************************************************************)
(* Transcript-harvesting scripts: the primary caption pass                 *)
(* (scripts/fetch_youtube_transcripts.py), the combined caption + Whisper  *)
(* pass (scripts/fetch_and_transcribe_youtube.py) and the three fallback   *)
(* passes over the folder layout (scripts/fill_missing_captions.py,        *)
(* scripts/fill_with_ytdlp.py, scripts/scripts/whisper_fill_missing.py).   *)
(*                                                                         *)
(* Every script is a sequential process: one pass is Start, one Item step  *)
(* per loop iteration, Finish.  The external collaborators (yt-dlp, the    *)
(* caption API, the Whisper model) are inputs: the caption API's behaviour *)
(* per video is the variable src, every other outcome is drawn with \E.    *)
(***************************************************************************)
EXTENDS Integers, Sequences, FiniteSets, TLC

\* ------------------------------------------------------------------ bounds
NumIds == 2          \* video ids 1..NumIds
MaxListed == 2       \* longest listing the listing capability returns
MaxTracks == 2       \* most caption tracks of one video (resolver inputs)
MaxPasses == 2       \* script runs in one behaviour

Ids == 1..NumIds

\* ------------------------------------------------------------- file system
\* The content of a file: its format, what it was made from, and a number
\* (a language or track index, a video id).
Content(f, b, i) == [fmt |-> f, by |-> b, idx |-> i]
Absent == Content("absent", "", 0)     \* the file does not exist
NoText == Content("", "", 0)           \* the empty string

\* fetch_youtube_transcripts.py:10-11 / fetch_and_transcribe_youtube.py:30-31
FytOutdir == "richroll"
FatOutdir == "richroll"
\* fill_missing_captions.py:5 / fill_with_ytdlp.py:5 / whisper_fill_missing.py:6
FmcOutdir == "brandonepstein"
FwyOutdir == "brandonepstein"
WfmOutdir == "brandonepstein"

Dirs == {"richroll", "brandonepstein"}

\* An item folder "<date> - <title> [<id>]": its four files, each absent or
\* holding a content.
EmptyFolder ==
    [transcript |-> Absent, meta |-> Absent, notrans |-> Absent, error |-> Absent]

\* The directory exists once mkdir made it; every path through the loops
\* leaves at least one file in a folder they made.
IsDir(f) == f # EmptyFolder

VARIABLES
    src,       \* [Ids -> set of caption environments]: what the caption API may answer
    store,     \* [Dirs -> [Ids -> folder]]: data/transcripts/youtube/<dir>/<folder>
    lastRun,   \* data/transcripts/youtube/last_run.json, or Absent
    tmp,       \* audio files present in tmp_audio/
    stage,     \* the script that is running, or "idle"
    todo,      \* the items the running loop has not reached yet
    stats,     \* the stats dict of the running primary pass
    calls,     \* external per-item calls the running pass has made
    models,    \* WhisperModel constructions of the running pass
    snap,      \* the store as it was when the running pass started
    fresh,     \* nothing but the running pass happened since a primary pass completed
    exit,      \* how the last process ended
    passes,    \* passes started so far
    renv,      \* resolver input  (resolver specification only)
    rres,      \* resolver output (resolver specification only)
    out,       \* the files under output/: per-episode files and feed transcripts
    written,   \* the list FeedTranscriber.transcribe is building
    arg,       \* arguments of the function applied (function specifications only)
    ret        \* what it returned or raised

vars == <<src, store, lastRun, tmp, stage, todo, stats, calls, models, snap,
          fresh, exit, passes, renv, rres, out, written, arg, ret>>

\* ------------------------------------------------- the caption API (input)
\* What one candidate fetch does: returns a track, raises "no captions of
\* this kind", or raises anything else (network, quota, malformed response).
Outcomes == {"hit", "miss", "err"}

\* fetch_youtube_transcripts.py:76, the preferred languages in order.
langs == <<"en", "en-US", "en-GB">>
\* fetch_and_transcribe_youtube.py:59 and :66.
fat_langs == <<"en", "en-US">>

PerLang == [1..Len(langs) -> Outcomes]
AllMiss == [i \in 1..Len(langs) |-> "miss"]

\* A track of the listing is not translatable ("fixed"), or its translation
\* to English is fetched with one of the three outcomes.
TrackKinds == {"fixed"} \cup Outcomes
TrackSeqs == UNION {[1..n -> TrackKinds] : n \in 0..MaxTracks}

\* list: what YouTubeTranscriptApi.list_transcripts does: "ok", raises
\* TranscriptsDisabled ("disabled"), raises another error ("error"), or is
\* missing from the installed package ("attr_error").
MkEnv(l, m, a, t, g, ga) ==
    [list |-> l, manual |-> m, auto |-> a, tracks |-> t, legacy |-> g, legacyAny |-> ga]

ModernEnvs ==
    {MkEnv("ok", m, a, t, AllMiss, "miss") : m \in PerLang, a \in PerLang, t \in TrackSeqs}
LegacyEnvs ==
    {MkEnv("attr_error", AllMiss, AllMiss, <<>>, g, ga) : g \in PerLang, ga \in Outcomes}
FailEnvs ==
    {MkEnv(l, AllMiss, AllMiss, <<>>, AllMiss, "miss") : l \in {"disabled", "error"}}
Envs == ModernEnvs \cup LegacyEnvs \cup FailEnvs

\* ---------------------------------------------------------- the resolver
\* `for x in xs: try: return fetch(x) except: pass`: the index of the first
\* candidate at or after i whose fetch returns, 0 when the loop falls through.
RECURSIVE FirstHit(_, _)
FirstHit(outs, i) ==
    IF i > Len(outs) THEN 0
    ELSE IF outs[i] = "hit" THEN i
    ELSE FirstHit(outs, i + 1)

\* The fetches that loop made, in order: every candidate up to the first hit;
\* a track that is not translatable is passed over without a fetch (line 95).
RECURSIVE Attempts(_, _, _, _)
Attempts(tag, outs, i, h) ==
    IF i > Len(outs) \/ (h # 0 /\ i > h) THEN <<>>
    ELSE (IF outs[i] = "fixed" THEN <<>> ELSE << <<tag, i>> >>)
         \o Attempts(tag, outs, i + 1, h)

Result(k, b, i, t) == [kind |-> k, by |-> b, idx |-> i, tried |-> t]

\* Mutant: the automatic captions are tried before the manual ones.
fetch_transcript_chunks_auto_first(env) ==
    LET a == FirstHit(env.auto, 1)
        m == FirstHit(env.manual, 1)
        ta == Attempts("auto", env.auto, 1, a)
        tm == Attempts("manual", env.manual, 1, m)
    IN  IF env.list # "ok" THEN Result("Exception", "list", 0, <<>>)
        ELSE IF a # 0 THEN Result("chunks", "auto", a, ta)
        ELSE IF m # 0 THEN Result("chunks", "manual", m, ta \o tm)
        ELSE Result("NoTranscriptFound", "none", 0, ta \o tm)

\* fetch_youtube_transcripts.py:76-111.  The value returned or the exception
\* raised, with the candidate fetches made on the way.
fetch_transcript_chunks(env) ==
    LET m == FirstHit(env.manual, 1)
        a == FirstHit(env.auto, 1)
        t == FirstHit(env.tracks, 1)
        tm == Attempts("manual", env.manual, 1, m)
        ta == Attempts("auto", env.auto, 1, a)
        tt == Attempts("translate", env.tracks, 1, t)
        g == FirstHit(env.legacy, 1)
        tg == Attempts("get_transcript", env.legacy, 1, g)
    IN  CASE env.list = "ok" ->
                IF m # 0 THEN Result("chunks", "manual", m, tm)
                ELSE IF a # 0 THEN Result("chunks", "auto", a, tm \o ta)
                ELSE IF t # 0 THEN Result("chunks", "translated", t, tm \o ta \o tt)
                ELSE Result("NoTranscriptFound", "none", 0, tm \o ta \o tt)
          [] env.list = "attr_error" ->
                IF g # 0 THEN Result("chunks", "get_transcript", g, tg)
                ELSE IF env.legacyAny = "hit"
                     THEN Result("chunks", "get_transcript_any", 0, tg \o << <<"get_transcript_any", 0>> >>)
                ELSE Result("NoTranscriptFound", "none", 0, tg \o << <<"get_transcript_any", 0>> >>)
          [] env.list = "disabled" -> Result("TranscriptsDisabled", "list", 0, <<>>)
          [] OTHER -> Result("Exception", "list", 0, <<>>)

\* fetch_youtube_transcripts.py:113-119: one "[mm:ss] text" line per chunk.
chunks_to_text(r) == Content("mmss lines", r.by, r.idx)

\* fetch_and_transcribe_youtube.py:55-79: manual then automatic captions in
\* ("en", "en-US"); every exception, whatever its kind, yields "".
get_transcript_text(env) ==
    LET n == Len(fat_langs)
        m == FirstHit(SubSeq(env.manual, 1, n), 1)
        a == FirstHit(SubSeq(env.auto, 1, n), 1)
    IN  IF env.list # "ok" THEN NoText
        ELSE IF m # 0 THEN Content("joined", "manual", m)
        ELSE IF a # 0 THEN Content("joined", "auto", a)
        ELSE NoText

\* The caption environments the passes are run against: manual captions in
\* the first language, no captions of any kind, a failing list_transcripts.
EnvManual == MkEnv("ok", [AllMiss EXCEPT ![1] = "hit"], AllMiss, <<>>, AllMiss, "miss")
EnvNone == MkEnv("ok", AllMiss, AllMiss, <<>>, AllMiss, "miss")
EnvError == MkEnv("error", AllMiss, AllMiss, <<>>, AllMiss, "miss")
PassEnvs == {EnvManual, EnvNone, EnvError}

\* ---------------------------------------------------------- folder names
\* A string is held as its runs: <<[ch |-> c, n |-> k], ...>> is k times the
\* character c, and so on, so that a title can be longer than the limit of
\* safe_name.  "TAB" is a whitespace character other than the blank.
MaxRuns == 3
NameLimit == 160     \* fetch_youtube_transcripts.py:19, s[:160]
\* fetch_youtube_transcripts.py:17, the class [\\/:*?\"<>|].
Unsafe == {"\\", "/", ":", "*", "?", "\"", "<", ">", "|"}
Whitespace == {" ", "TAB"}
TitleChars == {"a", "/", " ", "TAB", "[", "]"}
RunLens == {1, NameLimit - 1, NameLimit + 1}
Runs == {[ch |-> c, n |-> k] : c \in TitleChars, k \in RunLens}
Titles == UNION {[1..m -> Runs] : m \in 0..MaxRuns}
Str(c) == <<[ch |-> c, n |-> 1]>>

RECURSIVE StrLen(_)
StrLen(s) == IF s = <<>> THEN 0 ELSE Head(s).n + StrLen(Tail(s))

HasChar(s, C) == \E i \in 1..Len(s) : s[i].ch \in C /\ s[i].n > 0

\* re.sub(r"[C]+", by, s): every maximal run of characters of C becomes one
\* by; prev tells whether the character before was of C.
RECURSIVE Sub(_, _, _, _)
Sub(C, by, s, prev) ==
    IF s = <<>> THEN <<>>
    ELSE IF Head(s).ch \in C
         THEN (IF prev THEN <<>> ELSE Str(by)) \o Sub(C, by, Tail(s), TRUE)
         ELSE <<Head(s)>> \o Sub(C, by, Tail(s), FALSE)

\* str.strip().
RECURSIVE Strip(_)
Strip(s) ==
    IF s = <<>> THEN <<>>
    ELSE IF Head(s).ch \in Whitespace THEN Strip(Tail(s))
    ELSE IF s[Len(s)].ch \in Whitespace THEN Strip(SubSeq(s, 1, Len(s) - 1))
    ELSE s

\* s[:k].
RECURSIVE Slice(_, _)
Slice(s, k) ==
    IF s = <<>> \/ k <= 0 THEN <<>>
    ELSE IF Head(s).n >= k THEN <<[ch |-> Head(s).ch, n |-> k]>>
    ELSE <<Head(s)>> \o Slice(Tail(s), k - Head(s).n)

\* Mutant: the name is not cut.
safe_name_uncut(s) == Strip(Sub(Whitespace, " ", Sub(Unsafe, "_", s, FALSE), FALSE))

\* fetch_youtube_transcripts.py:16-19 (the same function in
\* fetch_and_transcribe_youtube.py:50-53).
safe_name(s) ==
    Slice(Strip(Sub(Whitespace, " ", Sub(Unsafe, "_", s, FALSE), FALSE)), NameLimit)

\* The item id is one symbol of the name; the date is "yyyy-mm-dd" or "".
IdStr(vid) == Str(ToString(vid))
Dates == {<<>>, Str("yyyy-mm-dd")}

\* fetch_youtube_transcripts.py:141.
fyt_folder_name(date, title, vid) ==
    (IF date # <<>> THEN date \o Str(" ") \o Str("-") \o Str(" ") ELSE <<>>)
    \o safe_name(title) \o Str(" ") \o Str("[") \o IdStr(vid) \o Str("]")

\* fetch_and_transcribe_youtube.py:102.
fat_folder_name(title, vid) ==
    safe_name(title) \o Str(" ") \o Str("[") \o IdStr(vid) \o Str("]")

\* s.split(c)[-1]: what follows the last c of s, all of s when it holds none.
RECURSIVE AfterLast(_, _)
AfterLast(s, c) ==
    IF s = <<>> THEN <<>>
    ELSE IF \E i \in 2..Len(s) : s[i].ch = c THEN AfterLast(Tail(s), c)
    ELSE IF Head(s).ch = c THEN Tail(s)
    ELSE s

\* s.split(c)[1]: what lies between the first c of s and the next one.
RECURSIVE UpTo(_, _)
UpTo(s, c) ==
    IF s = <<>> \/ Head(s).ch = c THEN <<>>
    ELSE <<Head(s)>> \o UpTo(Tail(s), c)

RECURSIVE AfterFirst(_, _)
AfterFirst(s, c) ==
    IF s = <<>> THEN <<>>
    ELSE IF Head(s).ch # c THEN AfterFirst(Tail(s), c)
    ELSE IF Head(s).n > 1 THEN <<>>
    ELSE UpTo(Tail(s), c)

\* s[:-1].
DropLast(s) ==
    IF s = <<>> THEN <<>>
    ELSE LET last == s[Len(s)]
         IN  SubSeq(s, 1, Len(s) - 1)
             \o (IF last.n > 1 THEN <<[ch |-> last.ch, n |-> last.n - 1]>> ELSE <<>>)

\* Mutant: the id is looked for behind the first bracket of the name.
folder_id_first_bracket(name) == DropLast(AfterFirst(name, "["))

\* fill_with_ytdlp.py:58-60 / fill_missing_captions.py:39-41, the id of a
\* folder whose name ends with "]".
folder_id(name) == DropLast(AfterLast(name, "["))

\* --------------------------------------------------------------- listing
\* What the channel holds, in listing order (possibly nothing, possibly the
\* same video twice).
Listings == UNION {[1..n -> Ids] : n \in 0..MaxListed}

\* The values of YT_SOURCE the pass is started with: unset, or a bare handle.
Sources == {"", "@richroll"}

Exit(u) == [exit |-> TRUE, value |-> u]
Return(u) == [exit |-> FALSE, value |-> u]

\* fetch_youtube_transcripts.py:21-29.
normalize_source(url) ==
    IF url = "" THEN Exit("YT_SOURCE is empty. Set it in the workflow env.")
    ELSE Return("https://www.youtube.com/@richroll/videos")

Take(seq, n) == SubSeq(seq, 1, IF n < Len(seq) THEN n ELSE Len(seq))

\* fetch_youtube_transcripts.py:39-74.  chan is what the URL lists; flatOk and
\* fullOk tell whether the two yt-dlp invocations exit with status 0.  yt-dlp
\* applies "-I 1:MAX_VIDEOS", which only the first invocation is given.
list_videos(chan, MAX_VIDEOS, flatOk, fullOk) ==
    LET flat == IF ~flatOk THEN <<>>
                ELSE IF MAX_VIDEOS > 0 THEN Take(chan, MAX_VIDEOS)
                ELSE chan
        entries == IF flat # <<>> THEN flat
                   ELSE IF fullOk THEN chan
                   ELSE <<>>
    IN  IF entries = <<>> THEN Exit(<<>>) ELSE Return(entries)

\* fetch_and_transcribe_youtube.py:36-48.  ok tells whether yt-dlp exits with
\* status 0.
run_yt_dlp_list(chan, max_videos, ok) ==
    IF ~ok THEN Exit(<<>>)
    ELSE Return(IF max_videos > 0 THEN Take(chan, max_videos) ELSE chan)

\* The limits a lister is given: MAX_VIDEOS, max_videos, max_episodes.
Limits == 0..(MaxListed + 1)

\* rss_whisper.py:160, max_episodes: Optional[int] = None.
None == -1

\* rss_whisper.py:164-166: the episodes the loop of transcribe goes over.
limit_episodes(episodes, max_episodes) ==
    IF max_episodes # None THEN Take(episodes, max_episodes) ELSE episodes

\* ------------------------------------------------------------------ state
\* fetch_youtube_transcripts.py:127-128.
NewStats(source, videos) ==
    [source |-> source, total_listed |-> Len(videos), saved |-> 0,
     no_transcript |-> 0, errors |-> 0, processed_ids |-> <<>>]

NoStats == NewStats("", <<>>)
NoResult == Result("", "", 0, <<>>)

Call(dir, vid, kind, ok) == [dir |-> dir, id |-> vid, kind |-> kind, ok |-> ok]

\* ------------------------------- scripts/fetch_youtube_transcripts.py main
\* fetch_youtube_transcripts.py:155 and :166, the text of metadata.txt.
fyt_meta(vid) == Content("metadata", "Date yyyy-mm-dd", vid)

\* Mutant: the existence check is dropped.
fyt_skip_never(folder) == FALSE

\* Mutant: a marker settles the item as a transcript does.
fyt_skip_marked(folder) ==
    folder.transcript # Absent \/ folder.notrans # Absent \/ folder.error # Absent

\* fetch_youtube_transcripts.py:147.
fyt_skip(folder) == folder.transcript # Absent

\* Mutant: the summary is written on the way out of a fatal listing error.
FytFatalWritesSummary ==
    /\ stage = "idle"
    /\ exit' = "fatal"
    /\ lastRun' = NewStats("", <<>>)
    /\ UNCHANGED <<src, store, tmp, stage, todo, stats, calls, models,
                   snap, fresh, passes, renv, rres,
                   out, written, arg, ret>>

\* fetch_youtube_transcripts.py:122-124 raising SystemExit: the process ends
\* before the loop.
FytFatal ==
    /\ stage = "idle"
    /\ TRUE \in {normalize_source(yt).exit \/ list_videos(chan, mv, flatOk, fullOk).exit :
                    yt \in Sources, chan \in Listings, mv \in 0..1, flatOk, fullOk \in BOOLEAN}
    /\ exit' = "fatal"
    /\ UNCHANGED <<src, store, lastRun, tmp, stage, todo, stats, calls, models,
                   snap, fresh, passes, renv, rres,
                   out, written, arg, ret>>

\* fetch_youtube_transcripts.py:122-128.
FytStart ==
    /\ stage = "idle"
    /\ passes < MaxPasses
    /\ passes' = passes + 1
    /\ \E yt \in Sources, chan \in Listings, mv \in 0..1, flatOk, fullOk \in BOOLEAN :
          LET s == normalize_source(yt)
              l == list_videos(chan, mv, flatOk, fullOk)
          IN  /\ ~s.exit
              /\ ~l.exit
              /\ todo' = l.value
              /\ stats' = NewStats(s.value, l.value)
    /\ stage' = "fyt"
    /\ calls' = {}
    /\ models' = 0
    /\ snap' = store
    /\ exit' = "running"
    /\ UNCHANGED <<src, store, lastRun, tmp, fresh, renv, rres,
                   out, written, arg, ret>>

\* Mutant: the existence check comes before the id is recorded.
FytSkipUnlisted(vid) ==
    /\ stats' = stats
    /\ todo' = Tail(todo)
    /\ UNCHANGED <<store, calls, stage, exit>>

\* fetch_youtube_transcripts.py:122-128, the pass started once more by the
\* operator or the schedule, as often as they like: the run is not counted.
FytRerun ==
    /\ stage = "idle"
    /\ \E yt \in Sources, chan \in Listings, mv \in 0..1, flatOk, fullOk \in BOOLEAN :
          LET s == normalize_source(yt)
              l == list_videos(chan, mv, flatOk, fullOk)
          IN  /\ ~s.exit
              /\ ~l.exit
              /\ todo' = l.value
              /\ stats' = NewStats(s.value, l.value)
    /\ stage' = "fyt"
    /\ calls' = {}
    /\ models' = 0
    /\ snap' = store
    /\ exit' = "running"
    /\ UNCHANGED <<src, store, lastRun, tmp, fresh, passes, renv, rres,
                   out, written, arg, ret>>

\* fetch_youtube_transcripts.py:147-149.
FytSkip(vid) ==
    /\ stats' = [stats EXCEPT !.processed_ids = Append(@, vid)]
    /\ todo' = Tail(todo)
    /\ UNCHANGED <<store, calls, stage, exit>>

\* fetch_youtube_transcripts.py:151-160.
FytSaved(vid, r) ==
    /\ store' = [store EXCEPT ![FytOutdir][vid].meta = fyt_meta(vid),
                              ![FytOutdir][vid].transcript = chunks_to_text(r)]
    /\ stats' = [stats EXCEPT !.processed_ids = Append(@, vid), !.saved = @ + 1]
    /\ calls' = calls \cup {Call(FytOutdir, vid, "caption_fetch", TRUE)}
    /\ todo' = Tail(todo)
    /\ UNCHANGED <<stage, exit>>

\* fetch_youtube_transcripts.py:161-169.
FytNoTranscript(vid, r) ==
    /\ store' = [store EXCEPT ![FytOutdir][vid].notrans = Content("marker", r.kind, 0),
                              ![FytOutdir][vid].meta = fyt_meta(vid)]
    /\ stats' = [stats EXCEPT !.processed_ids = Append(@, vid), !.no_transcript = @ + 1]
    /\ calls' = calls \cup {Call(FytOutdir, vid, "caption_fetch", FALSE)}
    /\ todo' = Tail(todo)
    /\ UNCHANGED <<stage, exit>>

\* Mutant: the exception is not caught and ends the process.
FytErrorPropagates(vid, r) ==
    /\ store' = store
    /\ stats' = [stats EXCEPT !.processed_ids = Append(@, vid)]
    /\ calls' = calls \cup {Call(FytOutdir, vid, "caption_fetch", FALSE)}
    /\ todo' = todo
    /\ stage' = "idle"
    /\ exit' = "abort"

\* fetch_youtube_transcripts.py:170-173.
FytError(vid, r) ==
    /\ store' = [store EXCEPT ![FytOutdir][vid].error = Content("error", r.kind, 0)]
    /\ stats' = [stats EXCEPT !.processed_ids = Append(@, vid), !.errors = @ + 1]
    /\ calls' = calls \cup {Call(FytOutdir, vid, "caption_fetch", FALSE)}
    /\ todo' = Tail(todo)
    /\ UNCHANGED <<stage, exit>>

\* fetch_youtube_transcripts.py:130-173, one iteration of the loop.
FytItem ==
    /\ stage = "fyt"
    /\ todo # <<>>
    /\ \E env \in src[Head(todo)] :
          LET vid == Head(todo)
              r == fetch_transcript_chunks(env)
          IN  IF fyt_skip(store[FytOutdir][vid]) THEN FytSkip(vid)
              ELSE IF r.kind = "chunks" THEN FytSaved(vid, r)
              ELSE IF r.kind \in {"TranscriptsDisabled", "NoTranscriptFound"}
                   THEN FytNoTranscript(vid, r)
              ELSE FytError(vid, r)
    /\ UNCHANGED <<src, lastRun, tmp, models, snap, fresh, passes, renv, rres,
                   out, written, arg, ret>>

\* Mutant: the summary is written only when the pass saved something.
FytFinishWhenSaved ==
    /\ stage = "fyt"
    /\ todo = <<>>
    /\ lastRun' = IF stats.saved > 0 THEN stats ELSE lastRun
    /\ stage' = "idle"
    /\ stats' = NoStats
    /\ calls' = {}
    /\ snap' = store
    /\ fresh' = TRUE
    /\ exit' = "ok"
    /\ UNCHANGED <<src, store, tmp, todo, models, passes, renv, rres,
                   out, written, arg, ret>>

\* fetch_youtube_transcripts.py:175, after the loop.
FytFinish ==
    /\ stage = "fyt"
    /\ todo = <<>>
    /\ lastRun' = stats
    /\ stage' = "idle"
    /\ stats' = NoStats
    /\ calls' = {}
    /\ snap' = store
    /\ fresh' = TRUE
    /\ exit' = "ok"
    /\ UNCHANGED <<src, store, tmp, todo, models, passes, renv, rres,
                   out, written, arg, ret>>

\* ------------- scripts/fetch_youtube_transcripts.py main, folders by name
\* A listing entry as list_videos returns it (68-73): the id, and the title
\* and upload date yt-dlp reports at the time of the listing.
ListedTitles == {Str("a"), Str("a") \o Str("/"), Str("a") \o Str(":")}
UploadDates == {"", "yyyymmdd"}
Videos == [id : Ids, title : ListedTitles, upload_date : UploadDates]
\* One listing reports one title and one date for an id.
VideoLists ==
    {l \in UNION {[1..n -> Videos] : n \in 0..MaxListed} :
        \A i, j \in 1..Len(l) : l[i].id = l[j].id => l[i] = l[j]}

\* fetch_youtube_transcripts.py:137-139.
fyt_date(upload_date) ==
    IF upload_date = "yyyymmdd" THEN Str("yyyy-mm-dd")
    ELSE IF upload_date = "" THEN <<>>
    ELSE Str(upload_date)

\* fetch_youtube_transcripts.py:141-142, the folder of a listing entry.
fyt_folder(v) == fyt_folder_name(fyt_date(v.upload_date), v.title, v.id)

\* Every name OUTDIR may come to hold.
FolderNames == {fyt_folder(v) : v \in Videos}

\* fetch_youtube_transcripts.py:122-128.
FytNamedStart ==
    /\ stage = "idle"
    /\ passes < MaxPasses
    /\ passes' = passes + 1
    /\ \E videos \in VideoLists \ {<<>>} :
          /\ todo' = videos
          /\ stats' = NewStats(normalize_source("@richroll").value,
                               [i \in 1..Len(videos) |-> videos[i].id])
    /\ stage' = "fyt"
    /\ calls' = {}
    /\ models' = 0
    /\ snap' = store
    /\ exit' = "running"
    /\ UNCHANGED <<src, store, lastRun, tmp, fresh, renv, rres,
                   out, written, arg, ret>>

\* fetch_youtube_transcripts.py:130-173, one iteration of the loop: the
\* folder is the one named after the entry's date, title and id.
FytNamedItem ==
    /\ stage = "fyt"
    /\ todo # <<>>
    /\ \E env \in src[Head(todo).id] :
          LET v == Head(todo)
              vid == v.id
              name == fyt_folder(v)
              folder == store[FytOutdir][name]
              r == fetch_transcript_chunks(env)
              counter == IF r.kind = "chunks" THEN "saved"
                         ELSE IF r.kind \in {"TranscriptsDisabled", "NoTranscriptFound"}
                              THEN "no_transcript"
                         ELSE "errors"
          IN  IF fyt_skip(folder)
              THEN /\ stats' = [stats EXCEPT !.processed_ids = Append(@, vid)]
                   /\ UNCHANGED <<store, calls>>
              ELSE /\ store' = [store EXCEPT ![FytOutdir][name] =
                         CASE counter = "saved" ->
                                 [folder EXCEPT !.meta = fyt_meta(vid),
                                                !.transcript = chunks_to_text(r)]
                           [] counter = "no_transcript" ->
                                 [folder EXCEPT !.notrans = Content("marker", r.kind, 0),
                                                !.meta = fyt_meta(vid)]
                           [] OTHER ->
                                 [folder EXCEPT !.error = Content("error", r.kind, 0)]]
                   /\ stats' = [stats EXCEPT !.processed_ids = Append(@, vid),
                                             ![counter] = @ + 1]
                   /\ calls' = calls \cup
                         {Call(FytOutdir, vid, "caption_fetch", counter = "saved")}
    /\ todo' = Tail(todo)
    /\ UNCHANGED <<src, lastRun, tmp, stage, models, snap, fresh, exit, passes,
                   renv, rres, out, written, arg, ret>>

\* fetch_youtube_transcripts.py:175, after the loop.
FytNamedFinish ==
    /\ stage = "fyt"
    /\ todo = <<>>
    /\ lastRun' = stats
    /\ stage' = "idle"
    /\ stats' = NoStats
    /\ calls' = {}
    /\ snap' = store
    /\ fresh' = TRUE
    /\ exit' = "ok"
    /\ UNCHANGED <<src, store, tmp, todo, models, passes, renv, rres,
                   out, written, arg, ret>>

\* ------------------------------------------------------ Whisper (input)
\* What one transcription does: writes every segment, raises before the
\* output file is opened (model construction, model.transcribe), or raises
\* while the segments are being written.
WhisperOutcomes == {"complete", "raises before open", "raises midway"}

Raises(outcome) == outcome # "complete"

\* fetch_and_transcribe_youtube.py:81-89: the content of out_txt afterwards.
\* The file is opened for writing at its final path and the segments are
\* written to it one by one as the model yields them.
transcribe_with_faster_whisper(out_txt, outcome) ==
    CASE outcome = "complete" -> Content("whisper segments", "complete", 0)
      [] outcome = "raises midway" -> Content("whisper segments", "partial", 0)
      [] OTHER -> out_txt

\* whisper_fill_missing.py:54-62, the same function.
wfm_transcribe_with_faster_whisper(out_txt, outcome) ==
    CASE outcome = "complete" -> Content("whisper segments", "complete", 0)
      [] outcome = "raises midway" -> Content("whisper segments", "partial", 0)
      [] OTHER -> out_txt

\* --------------------------- scripts/fetch_and_transcribe_youtube.py main
\* fetch_and_transcribe_youtube.py:110.
fat_meta(vid) == Content("metadata", "Date yyyymmdd", vid)

\* fetch_and_transcribe_youtube.py:113.
fat_skip(folder) == folder.transcript # Absent

\* fetch_and_transcribe_youtube.py:93 with run_yt_dlp_list exiting (line 47).
FatFatal ==
    /\ stage = "idle"
    /\ exit' = "fatal"
    /\ UNCHANGED <<src, store, lastRun, tmp, stage, todo, stats, calls, models,
                   snap, fresh, passes, renv, rres,
                   out, written, arg, ret>>

\* fetch_and_transcribe_youtube.py:92-95.
FatStart ==
    /\ stage = "idle"
    /\ passes < MaxPasses
    /\ passes' = passes + 1
    /\ \E chan \in Listings : todo' = chan
    /\ stage' = "fat"
    /\ calls' = {}
    /\ models' = 0
    /\ snap' = store
    /\ exit' = "running"
    /\ UNCHANGED <<src, store, lastRun, tmp, stats, fresh, renv, rres,
                   out, written, arg, ret>>

\* fetch_and_transcribe_youtube.py:110-114.
FatSkip(vid) ==
    /\ store' = [store EXCEPT ![FatOutdir][vid].meta = fat_meta(vid)]
    /\ UNCHANGED <<calls, models, tmp>>

\* fetch_and_transcribe_youtube.py:117-122.
FatCaptions(vid, text) ==
    /\ store' = [store EXCEPT ![FatOutdir][vid].meta = fat_meta(vid),
                              ![FatOutdir][vid].transcript = text,
                              ![FatOutdir][vid].notrans = Absent]
    /\ calls' = calls \cup {Call(FatOutdir, vid, "caption_fetch", TRUE)}
    /\ UNCHANGED <<models, tmp>>

\* fetch_and_transcribe_youtube.py:126-140.
FatDownloadFails(vid) ==
    /\ store' = [store EXCEPT ![FatOutdir][vid].meta = fat_meta(vid),
                              ![FatOutdir][vid].notrans =
                                  Content("marker", "Could not download audio", 0)]
    /\ calls' = calls \cup {Call(FatOutdir, vid, "caption_fetch", FALSE),
                            Call(FatOutdir, vid, "audio_download", FALSE)}
    /\ tmp' = tmp \ {vid}
    /\ UNCHANGED models

\* fetch_and_transcribe_youtube.py:142-151.
FatWhisper(vid, outcome) ==
    /\ store' = [store EXCEPT
          ![FatOutdir][vid].meta = fat_meta(vid),
          ![FatOutdir][vid].transcript = transcribe_with_faster_whisper(@, outcome),
          ![FatOutdir][vid].notrans =
              IF Raises(outcome) THEN Content("marker", "Whisper error", 0) ELSE Absent]
    /\ calls' = calls \cup {Call(FatOutdir, vid, "caption_fetch", FALSE),
                            Call(FatOutdir, vid, "audio_download", TRUE),
                            Call(FatOutdir, vid, "transcribe", ~Raises(outcome))}
    /\ models' = models + 1
    /\ tmp' = tmp \ {vid}

\* fetch_and_transcribe_youtube.py:97-151, one iteration of the loop.
FatItem ==
    /\ stage = "fat"
    /\ todo # <<>>
    /\ \E env \in src[Head(todo)] :
          LET vid == Head(todo)
              text == get_transcript_text(env)
          IN  IF fat_skip(store[FatOutdir][vid]) THEN FatSkip(vid)
              ELSE IF text # NoText THEN FatCaptions(vid, text)
              ELSE \E downloaded \in BOOLEAN, outcome \in WhisperOutcomes :
                      IF downloaded THEN FatWhisper(vid, outcome)
                      ELSE FatDownloadFails(vid)
    /\ todo' = Tail(todo)
    /\ UNCHANGED <<src, lastRun, stage, stats, snap, fresh, exit, passes, renv, rres,
                   out, written, arg, ret>>

\* fetch_and_transcribe_youtube.py:153-159.
FatFinish ==
    /\ stage = "fat"
    /\ todo = <<>>
    /\ tmp' = {}
    /\ stage' = "idle"
    /\ calls' = {}
    /\ models' = 0
    /\ snap' = store
    /\ fresh' = FALSE
    /\ exit' = "ok"
    /\ UNCHANGED <<src, store, lastRun, todo, stats, passes, renv, rres,
                   out, written, arg, ret>>

\* --------------------------------------------------- yt-dlp subtitles (input)
\* What the subtitle download of one video leaves: yt-dlp exits non-zero, it
\* writes no .vtt file, it writes one without spoken text, or one with text.
SubtitleOutcomes == {"fails", "no vtt", "empty vtt", "vtt"}

\* A line of a subtitle file is the sequence of its tokens: a word, a blank,
\* a punctuation mark, a markup tag, or a maximal run of digits ("1", "11"
\* and "111" are runs of one, two and three digits).
DigitLen(t) == CASE t = "1" -> 1 [] t = "11" -> 2 [] t = "111" -> 3 [] OTHER -> 0
IsTag(t) == t \in {"<i>", "</i>"}

\* A WebVTT file: the header block, then the cues; a cue is an optional cue
\* number, the timing line and the lines of spoken text.
MaxCues == 2
VttHeaders ==
    { << <<"WEBVTT">> >>,
      << <<"WEBVTT">>, <<"Kind:", " ", "captions">>, <<"Language:", " ", "en">> >> }
\* hh:mm:ss.ttt and mm:ss.ttt, the two forms of a WebVTT timestamp.
LongStamp == <<"11", ":", "11", ":", "11", ".", "111">>
ShortStamp == <<"11", ":", "11", ".", "111">>
Timings ==
    { LongStamp \o <<" ", "-->", " ">> \o LongStamp,
      LongStamp \o <<" ", "-->", " ">> \o LongStamp \o <<" ", "align:start">>,
      ShortStamp \o <<" ", "-->", " ">> \o ShortStamp }
Payloads ==
    { << <<"a">> >>,
      << <<"<i>", "a", "</i>">> >>,
      << <<"111">> >>,
      << <<"a", " ", "a">>, <<"a">> >> }
Cues == [number : {<<>>, <<"1">>}, timing : Timings, payload : Payloads]
VttFiles == [header : VttHeaders, cues : UNION {[1..n -> Cues] : n \in 0..MaxCues}]

\* The lines of the file, in order; a blank line ends the header and a cue.
RECURSIVE CueLines(_)
CueLines(cues) ==
    IF cues = <<>> THEN <<>>
    ELSE LET cue == Head(cues)
         IN  (IF cue.number # <<>> THEN <<cue.number>> ELSE <<>>)
             \o <<cue.timing>> \o cue.payload \o << <<>> >> \o CueLines(Tail(cues))
FileLines(file) == file.header \o << <<>> >> \o CueLines(file.cues)

\* ts_re.search(line), fill_with_ytdlp.py:19: two hh:mm:ss.t+ stamps around
\* " --> ", found anywhere in the line.
TsAt(line, i) ==
    /\ i + 16 <= Len(line)
    /\ DigitLen(line[i]) >= 2
    /\ \A k \in {2, 4, 10, 12, 14} : DigitLen(line[i + k]) = 2
    /\ \A k \in {1, 3, 11, 13} : line[i + k] = ":"
    /\ \A k \in {5, 15} : line[i + k] = "."
    /\ \A k \in {6, 16} : DigitLen(line[i + k]) >= 1
    /\ \A k \in {7, 9} : line[i + k] = " "
    /\ line[i + 8] = "-->"
ts_search(line) == \E i \in 1..Len(line) : TsAt(line, i)

\* re.sub(r"\s+", " ", line).strip().
RECURSIVE Collapse(_, _)
Collapse(line, prev) ==
    IF line = <<>> THEN <<>>
    ELSE IF Head(line) = " "
         THEN (IF prev THEN <<>> ELSE <<" ">>) \o Collapse(Tail(line), TRUE)
         ELSE <<Head(line)>> \o Collapse(Tail(line), FALSE)
RECURSIVE Trim(_)
Trim(line) ==
    IF line = <<>> THEN <<>>
    ELSE IF Head(line) = " " THEN Trim(Tail(line))
    ELSE IF line[Len(line)] = " " THEN Trim(SubSeq(line, 1, Len(line) - 1))
    ELSE line

\* fill_with_ytdlp.py:16-36 (the same function in fill_missing_captions.py:
\* 16-30): the lines that are joined with "\n" into the returned text.
RECURSIVE vtt_to_txt(_)
vtt_to_txt(lines) ==
    IF lines = <<>> THEN <<>>
    ELSE LET line == Head(lines)
             clean == Trim(Collapse(SelectSeq(line, LAMBDA t : ~IsTag(t)), FALSE))
         IN  (IF \/ line = <<>>
                 \/ Head(line) = "WEBVTT"
                 \/ ("-->" \in {line[i] : i \in 1..Len(line)} /\ ts_search(line))
              THEN <<>>
              ELSE IF Len(line) = 1 /\ DigitLen(line[1]) > 0 THEN <<>>
              ELSE IF clean # <<>> THEN <<clean>>
              ELSE <<>>)
             \o vtt_to_txt(Tail(lines))

\* The file yt-dlp produced: one cue of text, or the header alone.
ProducedFile(produced) ==
    [header |-> << <<"WEBVTT">> >>,
     cues |-> IF produced = "vtt"
              THEN << [number |-> <<>>,
                       timing |-> LongStamp \o <<" ", "-->", " ">> \o LongStamp,
                       payload |-> << <<"a">> >>] >>
              ELSE <<>>]

\* fill_with_ytdlp.py:100-107 / fill_missing_captions.py:74-80: the text
\* converted from the produced file, "" when there is no file.
vtt_text(produced) ==
    IF /\ produced \in {"vtt", "empty vtt"}
       /\ vtt_to_txt(FileLines(ProducedFile(produced))) # <<>>
    THEN Content("vtt text", "captions", 0)
    ELSE NoText

\* OUTDIR.iterdir(): the item folders of a directory, in any order.
Orders(S) == {o \in UNION {[1..n -> S] : n \in 0..NumIds} :
                 /\ Len(o) = Cardinality(S)
                 /\ \A i, j \in 1..Len(o) : i # j => o[i] # o[j]}
Folders(dir) == {vid \in Ids : IsDir(store[dir][vid])}

\* The loop body shared by the two caption-download passes, on the folder
\* of dir named by vid.
\* Mutant: only the transcript is looked at, not the marker.
fill_skip_transcript_only(folder) == folder.transcript # Absent

\* fill_with_ytdlp.py:61-64, fill_missing_captions.py:42-45.
fill_skip(folder) == folder.transcript # Absent \/ folder.notrans = Absent

\* fill_with_ytdlp.py:104-119.
fwy_save(folder, text) ==
    IF text # NoText
    THEN [folder EXCEPT !.transcript = text, !.notrans = Absent]
    ELSE folder

\* fill_missing_captions.py:78-91.
fmc_save(folder, text) ==
    IF text # NoText
    THEN [folder EXCEPT !.transcript = text, !.notrans = Absent]
    ELSE folder

\* -------------------------------------- scripts/fill_missing_captions.py main
\* fill_missing_captions.py:33-35: no last_run.json, nothing to do.
FmcNothing ==
    /\ stage = "idle"
    /\ lastRun = Absent
    /\ exit' = "ok"
    /\ UNCHANGED <<src, store, lastRun, tmp, stage, todo, stats, calls, models,
                   snap, fresh, passes, renv, rres,
                   out, written, arg, ret>>

\* fill_missing_captions.py:33-38.
FmcStart ==
    /\ stage = "idle"
    /\ passes < MaxPasses
    /\ passes' = passes + 1
    /\ lastRun # Absent
    /\ \E o \in Orders(Folders(FmcOutdir)) : todo' = o
    /\ stage' = "fmc"
    /\ calls' = {}
    /\ models' = 0
    /\ snap' = store
    /\ exit' = "running"
    /\ UNCHANGED <<src, store, lastRun, tmp, stats, fresh, renv, rres,
                   out, written, arg, ret>>

\* fill_missing_captions.py:38-91, one iteration of the loop.
FmcItem ==
    /\ stage = "fmc"
    /\ todo # <<>>
    /\ LET vid == Head(todo)
           folder == store[FmcOutdir][vid]
       IN  IF fill_skip(folder) THEN UNCHANGED <<store, calls>>
           ELSE \E produced \in SubtitleOutcomes :
                   /\ calls' = calls \cup {Call(FmcOutdir, vid, "sub_download", produced # "fails")}
                   /\ store' = [store EXCEPT ![FmcOutdir][vid] =
                                    fmc_save(folder, vtt_text(produced))]
    /\ todo' = Tail(todo)
    /\ UNCHANGED <<src, lastRun, tmp, stage, stats, models, snap, fresh, exit, passes, renv, rres,
                   out, written, arg, ret>>

\* fill_missing_captions.py:93-98.
FmcFinish ==
    /\ stage = "fmc"
    /\ todo = <<>>
    /\ stage' = "idle"
    /\ calls' = {}
    /\ snap' = store
    /\ fresh' = FALSE
    /\ exit' = "ok"
    /\ UNCHANGED <<src, store, lastRun, tmp, todo, stats, models, passes, renv, rres,
                   out, written, arg, ret>>

\* ------------------------------------------- scripts/fill_with_ytdlp.py main
\* fill_with_ytdlp.py:44-52: no last_run.json or no processed ids.
FwyNothing ==
    /\ stage = "idle"
    /\ IF lastRun = Absent THEN TRUE ELSE lastRun.processed_ids = <<>>
    /\ exit' = "ok"
    /\ UNCHANGED <<src, store, lastRun, tmp, stage, todo, stats, calls, models,
                   snap, fresh, passes, renv, rres,
                   out, written, arg, ret>>

\* fill_with_ytdlp.py:44-55.
FwyStart ==
    /\ stage = "idle"
    /\ passes < MaxPasses
    /\ passes' = passes + 1
    /\ lastRun # Absent
    /\ lastRun.processed_ids # <<>>
    /\ \E o \in Orders(Folders(FwyOutdir)) : todo' = o
    /\ stage' = "fwy"
    /\ calls' = {}
    /\ models' = 0
    /\ snap' = store
    /\ exit' = "running"
    /\ UNCHANGED <<src, store, lastRun, tmp, stats, fresh, renv, rres,
                   out, written, arg, ret>>

\* fill_with_ytdlp.py:55-119, one iteration of the loop.
FwyItem ==
    /\ stage = "fwy"
    /\ todo # <<>>
    /\ LET vid == Head(todo)
           folder == store[FwyOutdir][vid]
       IN  IF fill_skip(folder) THEN UNCHANGED <<store, calls>>
           ELSE \E produced \in SubtitleOutcomes :
                   /\ calls' = calls \cup {Call(FwyOutdir, vid, "sub_download", produced # "fails")}
                   /\ store' = [store EXCEPT ![FwyOutdir][vid] =
                                    fwy_save(folder, vtt_text(produced))]
    /\ todo' = Tail(todo)
    /\ UNCHANGED <<src, lastRun, tmp, stage, stats, models, snap, fresh, exit, passes, renv, rres,
                   out, written, arg, ret>>

\* fill_with_ytdlp.py:121-127.
FwyFinish ==
    /\ stage = "fwy"
    /\ todo = <<>>
    /\ stage' = "idle"
    /\ calls' = {}
    /\ snap' = store
    /\ fresh' = FALSE
    /\ exit' = "ok"
    /\ UNCHANGED <<src, store, lastRun, tmp, todo, stats, models, passes, renv, rres,
                   out, written, arg, ret>>

\* -------------------------------- scripts/scripts/whisper_fill_missing.py main
\* whisper_fill_missing.py:35.
wfm_skip(folder) == folder.transcript # Absent \/ folder.notrans = Absent

\* whisper_fill_missing.py:17-46: for every processed id in order, its
\* folder when that has NO_TRANSCRIPT.txt and no transcript.txt.  The
\* pattern "*[<id>]" of line 28 is a character class and every folder name
\* the scripts make ends with "]", which no id holds: the glob finds nothing
\* and the folder is found by name.endswith("[<id>]") (line 30).
RECURSIVE find_missing_folders(_, _)
find_missing_folders(ids, dir) ==
    IF ids = <<>> THEN <<>>
    ELSE LET vid == Head(ids)
         IN  (IF IsDir(dir[vid]) /\ ~wfm_skip(dir[vid]) THEN <<vid>> ELSE <<>>)
             \o find_missing_folders(Tail(ids), dir)

Missing ==
    IF lastRun = Absent THEN <<>>
    ELSE find_missing_folders(lastRun.processed_ids, store[WfmOutdir])

\* whisper_fill_missing.py:65-68: nothing is missing.
WfmNothing ==
    /\ stage = "idle"
    /\ Missing = <<>>
    /\ exit' = "ok"
    /\ UNCHANGED <<src, store, lastRun, tmp, stage, todo, stats, calls, models,
                   snap, fresh, passes, renv, rres,
                   out, written, arg, ret>>

\* whisper_fill_missing.py:65-70.
WfmStart ==
    /\ stage = "idle"
    /\ passes < MaxPasses
    /\ passes' = passes + 1
    /\ Missing # <<>>
    /\ todo' = Missing
    /\ stage' = "wfm"
    /\ calls' = {}
    /\ models' = 0
    /\ snap' = store
    /\ exit' = "running"
    /\ UNCHANGED <<src, store, lastRun, tmp, stats, fresh, renv, rres,
                   out, written, arg, ret>>

\* whisper_fill_missing.py:48-52 and 78-84: yt-dlp exits non-zero, run()
\* raises SystemExit outside every try block, the process ends.
WfmDownloadFails(vid) ==
    /\ calls' = calls \cup {Call(WfmOutdir, vid, "audio_download", FALSE)}
    /\ tmp' = tmp \ {vid}
    /\ stage' = "idle"
    /\ exit' = "abort"
    /\ fresh' = FALSE
    /\ UNCHANGED <<store, todo, models>>

\* whisper_fill_missing.py:86-97.
WfmWhisper(vid, outcome) ==
    /\ store' = [store EXCEPT
          ![WfmOutdir][vid].transcript = wfm_transcribe_with_faster_whisper(@, outcome),
          ![WfmOutdir][vid].notrans = IF Raises(outcome) THEN @ ELSE Absent,
          ![WfmOutdir][vid].error =
              IF Raises(outcome) THEN Content("error", outcome, 0) ELSE @]
    /\ calls' = calls \cup {Call(WfmOutdir, vid, "audio_download", TRUE),
                            Call(WfmOutdir, vid, "transcribe", ~Raises(outcome))}
    /\ models' = models + 1
    /\ tmp' = tmp \cup {vid}
    /\ todo' = Tail(todo)
    /\ UNCHANGED <<stage, exit, fresh>>

\* whisper_fill_missing.py:72-97, one iteration of the loop.
WfmItem ==
    /\ stage = "wfm"
    /\ todo # <<>>
    /\ \E downloaded \in BOOLEAN, outcome \in WhisperOutcomes :
          IF downloaded THEN WfmWhisper(Head(todo), outcome)
          ELSE WfmDownloadFails(Head(todo))
    /\ UNCHANGED <<src, lastRun, stats, snap, passes, renv, rres,
                   out, written, arg, ret>>

\* whisper_fill_missing.py:99-103.
WfmFinish ==
    /\ stage = "wfm"
    /\ todo = <<>>
    /\ tmp' = {}
    /\ stage' = "idle"
    /\ calls' = {}
    /\ models' = 0
    /\ snap' = store
    /\ fresh' = FALSE
    /\ exit' = "ok"
    /\ UNCHANGED <<src, store, lastRun, todo, stats, passes, renv, rres,
                   out, written, arg, ret>>

\* ------------------------------------------------ scripts/rss_whisper.py
\* Characters of guids and titles: a lower-case letter, an upper-case one, a
\* digit, and one that is none of these.
Lower(c) == IF c = "A" THEN "a" ELSE c
IsSlugChar(c) == c \in {"a", "1"}

\* re.sub(r"[^a-z0-9]+", "-", base): every run of other characters becomes
\* one "-"; prev tells whether the character before was replaced.
RECURSIVE SubDashes(_, _)
SubDashes(base, prev) ==
    IF base = <<>> THEN <<>>
    ELSE IF IsSlugChar(Head(base)) THEN <<Head(base)>> \o SubDashes(Tail(base), FALSE)
    ELSE (IF prev THEN <<>> ELSE <<"-">>) \o SubDashes(Tail(base), TRUE)

\* str.strip("-").
RECURSIVE StripDashes(_)
StripDashes(base) ==
    IF base = <<>> THEN <<>>
    ELSE IF Head(base) = "-" THEN StripDashes(Tail(base))
    ELSE IF base[Len(base)] = "-" THEN StripDashes(SubSeq(base, 1, Len(base) - 1))
    ELSE base

\* rss_whisper.py:36-43, Episode.slug; an absent guid is <<>>.
slug(episode) ==
    LET base == IF episode.guid # <<>> THEN episode.guid
                ELSE IF episode.title # <<>> THEN episode.title
                ELSE <<"e", "p", "i", "s", "o", "d", "e">>
        lower == [i \in 1..Len(base) |-> Lower(base[i])]
        stripped == StripDashes(SubDashes(lower, FALSE))
    IN  IF stripped # <<>> THEN stripped ELSE <<"e", "p", "i", "s", "o", "d", "e">>

\* The episodes a feed may list (rss_whisper.py:88-109), by number.
FeedEpisodes ==
    << [guid |-> <<"A", "1">>, title |-> <<"a">>],
       [guid |-> <<"a", "1">>, title |-> <<"A">>],
       [guid |-> <<>>,         title |-> <<"a", "#", "1">>],
       [guid |-> <<"#">>,      title |-> <<"1">>] >>
EpIds == 1..Len(FeedEpisodes)
Slugs == {slug(FeedEpisodes[e]) : e \in EpIds}

\* ----------------------------------------------------- the output/ tree
\* output/episodes/<date>_<title>_<id>.txt, the merged file and index.json
\* of fetch_transcripts.py, and output/rss_transcripts/<slug>.txt of
\* rss_whisper.py: no file yet.
NoFile == [exists |-> FALSE, rows |-> <<>>]
NoOutput ==
    [episodes |-> [vid \in Ids |-> Absent], merged |-> NoFile, index |-> NoFile,
     rss |-> [t \in Slugs |-> Absent]]

NoArg == [fn |-> "none"]
NoRet == [fn |-> "none"]

\* ------------------------------------------------- fetch_transcripts.py main
\* fetch_transcripts.py:83-92: the joined text, "" when get_transcript raises
\* whatever it raises.
ft_get_transcript_text(outcome) ==
    IF outcome = "hit" THEN Content("joined", "get_transcript", 0) ELSE NoText

\* fetch_transcripts.py:113-116.
section(vid, text) ==
    IF text = NoText THEN Content("section", "(No transcript available)", vid)
    ELSE Content("section", "text", vid)

\* fetch_transcripts.py:95-97: the key is missing, the handle does not
\* resolve or a listing request fails; the process ends before the loop.
FtFatal ==
    /\ stage = "idle"
    /\ exit' = "fatal"
    /\ UNCHANGED <<src, store, lastRun, tmp, stage, todo, stats, calls, models,
                   snap, fresh, passes, renv, rres, out, written, arg, ret>>

\* fetch_transcripts.py:95-104.
FtStart ==
    /\ stage = "idle"
    /\ passes < MaxPasses
    /\ passes' = passes + 1
    /\ \E videos \in Listings : todo' = videos
    /\ written' = <<>>
    /\ stage' = "ft"
    /\ calls' = {}
    /\ exit' = "running"
    /\ UNCHANGED <<src, store, lastRun, tmp, stats, models, snap, fresh, renv, rres,
                   out, arg, ret>>

\* fetch_transcripts.py:106-132, one iteration of the loop: the per-episode
\* file is opened with "w" whatever it holds.
FtItem ==
    /\ stage = "ft"
    /\ todo # <<>>
    /\ \E outcome \in Outcomes :
          LET vid == Head(todo)
              text == ft_get_transcript_text(outcome)
          IN  /\ out' = [out EXCEPT !.episodes[vid] = section(vid, text)]
              /\ written' = Append(written, section(vid, text))
              /\ calls' = calls \cup {Call("episodes", vid, "caption_fetch", outcome = "hit")}
    /\ todo' = Tail(todo)
    /\ UNCHANGED <<src, store, lastRun, tmp, stage, stats, models, snap, fresh, exit,
                   passes, renv, rres, arg, ret>>

\* fetch_transcripts.py:134-143: the merged file and index.json.
FtFinish ==
    /\ stage = "ft"
    /\ todo = <<>>
    /\ out' = [out EXCEPT !.merged = [exists |-> TRUE, rows |-> written],
                          !.index = [exists |-> TRUE,
                                     rows |-> [i \in 1..Len(written) |->
                                         [videoId |-> written[i].idx,
                                          has_transcript |-> written[i].by = "text"]]]]
    /\ stage' = "idle"
    /\ exit' = "ok"
    /\ UNCHANGED <<src, store, lastRun, tmp, todo, stats, calls, models, snap, fresh,
                   passes, renv, rres, written, arg, ret>>

\* ------------------------------ scripts/rss_whisper.py FeedTranscriber
\* What processing one episode runs into: the download raises, the model
\* cannot be loaded, the transcription raises, or the transcript is written.
EpisodeOutcomes == {"download raises", "load raises", "transcribe raises", "written"}

Feeds == UNION {[1..n -> EpIds] : n \in 0..MaxListed}

Raised == [fn |-> "transcribe", exit |-> TRUE, value |-> <<>>]

\* rss_whisper.py:163 with fetch_feed raising (the request fails, the feed is
\* not XML): the exception leaves transcribe before the loop.
FeedFatal ==
    /\ stage = "idle"
    /\ exit' = "fatal"
    /\ UNCHANGED <<src, store, lastRun, tmp, stage, todo, stats, calls, models,
                   snap, fresh, passes, renv, rres, out, written, arg, ret>>

\* rss_whisper.py:160-169.
FeedStart ==
    /\ stage = "idle"
    /\ passes < MaxPasses
    /\ passes' = passes + 1
    /\ \E feed \in Feeds, max_episodes \in Limits \cup {None}, skip_existing \in BOOLEAN :
          /\ arg' = [fn |-> "transcribe", chan |-> feed, limit |-> max_episodes,
                     skip_existing |-> skip_existing]
          /\ todo' = limit_episodes(feed, max_episodes)
    /\ written' = <<>>
    /\ models' = 0
    /\ calls' = {}
    /\ ret' = NoRet
    /\ stage' = "rss"
    /\ exit' = "running"
    /\ UNCHANGED <<src, store, lastRun, tmp, stats, snap, fresh, renv, rres, out>>

\* rss_whisper.py:174-177.
FeedSkip(episode, target_path) ==
    /\ written' = Append(written, target_path)
    /\ todo' = Tail(todo)
    /\ UNCHANGED <<out, calls, models, stage, exit, ret>>

\* rss_whisper.py:179-192: an exception raised inside the with block deletes
\* the temporary file, runs the finally and leaves transcribe; the command
\* line has no handler for it.
FeedRaises(episode, outcome) ==
    /\ calls' = calls \cup
          (IF outcome = "download raises"
           THEN {Call("rss", episode, "audio_download", FALSE)}
           ELSE IF outcome = "load raises"
           THEN {Call("rss", episode, "audio_download", TRUE),
                 Call("rss", episode, "load_model", FALSE)}
           ELSE {Call("rss", episode, "audio_download", TRUE),
                 Call("rss", episode, "transcribe", FALSE)})
    /\ models' = IF outcome = "transcribe raises" THEN 1 ELSE models
    /\ ret' = Raised
    /\ stage' = "idle"
    /\ exit' = "abort"
    /\ UNCHANGED <<out, written, todo>>

\* rss_whisper.py:179-187 and 154-158.
FeedWritten(episode, target_path) ==
    /\ calls' = calls \cup {Call("rss", episode, "audio_download", TRUE),
                            Call("rss", episode, "transcribe", TRUE)}
    /\ models' = 1
    /\ out' = [out EXCEPT !.rss[target_path] = Content("lines", "whisper", episode)]
    /\ written' = Append(written, target_path)
    /\ todo' = Tail(todo)
    /\ UNCHANGED <<stage, exit, ret>>

\* rss_whisper.py:172-187, one iteration of the loop.
FeedItem ==
    /\ stage = "rss"
    /\ todo # <<>>
    /\ LET episode == Head(todo)
           target_path == slug(FeedEpisodes[episode])
       IN  IF arg.skip_existing /\ out.rss[target_path] # Absent
           THEN FeedSkip(episode, target_path)
           ELSE \E outcome \in EpisodeOutcomes :
                   /\ outcome = "load raises" => models = 0
                   /\ IF outcome = "written" THEN FeedWritten(episode, target_path)
                      ELSE FeedRaises(episode, outcome)
    /\ UNCHANGED <<src, store, lastRun, tmp, stats, snap, fresh, passes, renv, rres, arg>>

\* rss_whisper.py:188-194 and rss_whisper_cli.py:98-102.
FeedFinish ==
    /\ stage = "rss"
    /\ todo = <<>>
    /\ ret' = [fn |-> "transcribe", exit |-> FALSE, value |-> written]
    /\ stage' = "idle"
    /\ exit' = "ok"
    /\ UNCHANGED <<src, store, lastRun, tmp, todo, stats, calls, models, snap, fresh,
                   passes, renv, rres, out, written, arg>>

\* ---------------------------------------------------------- specification
\* What data/transcripts/youtube/brandonepstein holds when the scripts are
\* first run: folders as the primary pass leaves them (fetch_youtube_-
\* transcripts.py:151-173): a saved transcript, a NO_TRANSCRIPT marker, an
\* ERROR marker, or no folder for the video.
LegacyFolders ==
    { EmptyFolder,
      [EmptyFolder EXCEPT !.transcript = Content("mmss lines", "manual", 1),
                          !.meta = Content("metadata", "Date yyyy-mm-dd", 0)],
      [EmptyFolder EXCEPT !.notrans = Content("marker", "NoTranscriptFound", 0),
                          !.meta = Content("metadata", "Date yyyy-mm-dd", 0)],
      [EmptyFolder EXCEPT !.error = Content("error", "Exception", 0)] }

\* The videos that have a folder, in listing order.
RECURSIVE LegacyIds(_, _)
LegacyIds(legacy, i) ==
    IF i > NumIds THEN <<>>
    ELSE (IF IsDir(legacy[i]) THEN <<i>> ELSE <<>>) \o LegacyIds(legacy, i + 1)

\* The last_run.json the pass that left those folders wrote
\* (fetch_youtube_transcripts.py:127-175); none when it left no folder.
LegacyRun(legacy) ==
    LET ids == LegacyIds(legacy, 1)
        Count(file) == Cardinality({vid \in Ids : legacy[vid][file] # Absent})
    IN  IF ids = <<>> THEN Absent
        ELSE [source |-> "https://www.youtube.com/@richroll/videos",
              total_listed |-> Len(ids), saved |-> Count("transcript"),
              no_transcript |-> Count("notrans"), errors |-> Count("error"),
              processed_ids |-> ids]

Init ==
    /\ src = [vid \in Ids |-> PassEnvs]
    /\ passes = 0
    /\ \E legacy \in [Ids -> LegacyFolders] :
          /\ store = [d \in Dirs |-> IF d = "brandonepstein" THEN legacy
                                     ELSE [vid \in Ids |-> EmptyFolder]]
          /\ lastRun = LegacyRun(legacy)
    /\ tmp = {}
    /\ stage = "idle"
    /\ todo = <<>>
    /\ stats = NoStats
    /\ calls = {}
    /\ models = 0
    /\ snap = store
    /\ fresh = FALSE
    /\ exit = "ok"
    /\ renv = EnvNone
    /\ rres = NoResult
    /\ out = NoOutput
    /\ written = <<>>
    /\ arg = NoArg
    /\ ret = NoRet

Next ==
    \/ FytFatal \/ FytStart \/ FytItem \/ FytFinish
    \/ FatFatal \/ FatStart \/ FatItem \/ FatFinish
    \/ FmcNothing \/ FmcStart \/ FmcItem \/ FmcFinish
    \/ FwyNothing \/ FwyStart \/ FwyItem \/ FwyFinish
    \/ WfmNothing \/ WfmStart \/ WfmItem \/ WfmFinish

Spec == Init /\ [][Next]_vars

\* The resolver on its own: any caption environment, one call.
ResolverInit ==
    /\ src = [vid \in Ids |-> {EnvNone}]
    /\ passes = 0
    /\ store = [d \in Dirs |-> [vid \in Ids |-> EmptyFolder]]
    /\ lastRun = Absent
    /\ tmp = {}
    /\ stage = "idle"
    /\ todo = <<>>
    /\ stats = NoStats
    /\ calls = {}
    /\ models = 0
    /\ snap = store
    /\ fresh = FALSE
    /\ exit = "ok"
    /\ renv \in Envs
    /\ rres = NoResult
    /\ out = NoOutput
    /\ written = <<>>
    /\ arg = NoArg
    /\ ret = NoRet

Resolve ==
    /\ rres = NoResult
    /\ rres' = fetch_transcript_chunks(renv)
    /\ UNCHANGED <<src, store, lastRun, tmp, stage, todo, stats, calls, models,
                   snap, fresh, exit, passes, renv,
                   out, written, arg, ret>>

ResolverNext == Resolve

ResolverSpec == ResolverInit /\ [][ResolverNext]_vars

\* The primary pass on its own, run repeatedly against caption sources that
\* answer the same way every time they are asked.
PrimaryInit ==
    /\ src \in [Ids -> {{e} : e \in PassEnvs}]
    /\ passes = 0
    /\ store = [d \in Dirs |-> [vid \in Ids |-> EmptyFolder]]
    /\ lastRun = Absent
    /\ tmp = {}
    /\ stage = "idle"
    /\ todo = <<>>
    /\ stats = NoStats
    /\ calls = {}
    /\ models = 0
    /\ snap = store
    /\ fresh = FALSE
    /\ exit = "ok"
    /\ renv = EnvNone
    /\ rres = NoResult
    /\ out = NoOutput
    /\ written = <<>>
    /\ arg = NoArg
    /\ ret = NoRet

PrimaryNext == FytFatal \/ FytStart \/ FytItem \/ FytFinish

PrimarySpec == PrimaryInit /\ [][PrimaryNext]_vars

\* The primary pass rerun without end against caption sources that may
\* recover: captions get published, the API answers again.
SourceRecovers ==
    /\ \E vid \in Ids :
          /\ src[vid] # {EnvManual}
          /\ src' = [src EXCEPT ![vid] = {EnvManual}]
    /\ UNCHANGED <<store, lastRun, tmp, stage, todo, stats, calls, models, snap,
                   fresh, exit, passes, renv, rres, out, written, arg, ret>>

RetryNext == FytFatal \/ FytRerun \/ FytItem \/ FytFinish \/ SourceRecovers

\* A rerun that lists the item.
FytRerunListing(vid) == FytRerun /\ vid \in {todo'[i] : i \in 1..Len(todo')}

\* The loop of a pass goes on to its end (main is sequential, every call in
\* it returns or raises), and the pass is run again and again with every
\* item listed again and again.
RetrySpec ==
    /\ PrimaryInit
    /\ [][RetryNext]_vars
    /\ WF_vars(FytItem)
    /\ WF_vars(FytFinish)
    /\ \A vid \in Ids : SF_vars(FytRerunListing(vid))

\* vtt_to_txt on its own: any subtitle file, one call.
VttArgs == {[fn |-> "vtt_to_txt", file |-> f] : f \in VttFiles}

VttInit ==
    /\ src = [vid \in Ids |-> {EnvNone}]
    /\ passes = 0
    /\ store = [d \in Dirs |-> [vid \in Ids |-> EmptyFolder]]
    /\ lastRun = Absent
    /\ tmp = {}
    /\ stage = "idle"
    /\ todo = <<>>
    /\ stats = NoStats
    /\ calls = {}
    /\ models = 0
    /\ snap = store
    /\ fresh = FALSE
    /\ exit = "ok"
    /\ renv = EnvNone
    /\ rres = NoResult
    /\ out = NoOutput
    /\ written = <<>>
    /\ arg \in VttArgs
    /\ ret = NoRet

VttToTxt ==
    /\ ret = NoRet
    /\ ret' = [fn |-> "vtt_to_txt", value |-> vtt_to_txt(FileLines(arg.file))]
    /\ UNCHANGED <<src, store, lastRun, tmp, stage, todo, stats, calls, models,
                   snap, fresh, exit, passes, renv, rres, out, written, arg>>

VttSpec == VttInit /\ [][VttToTxt]_vars

\* The primary pass on its own with folders looked up by their names: the
\* listing may report another title or date for an id on a later run.
NamedInit ==
    /\ src = [vid \in Ids |-> PassEnvs]
    /\ passes = 0
    /\ store = [d \in Dirs |-> [name \in FolderNames |-> EmptyFolder]]
    /\ lastRun = Absent
    /\ tmp = {}
    /\ stage = "idle"
    /\ todo = <<>>
    /\ stats = NoStats
    /\ calls = {}
    /\ models = 0
    /\ snap = store
    /\ fresh = FALSE
    /\ exit = "ok"
    /\ renv = EnvNone
    /\ rres = NoResult
    /\ out = NoOutput
    /\ written = <<>>
    /\ arg = NoArg
    /\ ret = NoRet

NamedNext == FytFatal \/ FytNamedStart \/ FytNamedItem \/ FytNamedFinish

NamedSpec == NamedInit /\ [][NamedNext]_vars

\* fetch_transcripts.py on its own, run repeatedly.
FtInit ==
    /\ src = [vid \in Ids |-> {EnvNone}]
    /\ passes = 0
    /\ store = [d \in Dirs |-> [vid \in Ids |-> EmptyFolder]]
    /\ lastRun = Absent
    /\ tmp = {}
    /\ stage = "idle"
    /\ todo = <<>>
    /\ stats = NoStats
    /\ calls = {}
    /\ models = 0
    /\ snap = store
    /\ fresh = FALSE
    /\ exit = "ok"
    /\ renv = EnvNone
    /\ rres = NoResult
    /\ out = NoOutput
    /\ written = <<>>
    /\ arg = NoArg
    /\ ret = NoRet

FtNext == FtFatal \/ FtStart \/ FtItem \/ FtFinish

FtSpec == FtInit /\ [][FtNext]_vars

\* rss_whisper.py on its own, run repeatedly on a growing output directory.
FeedInit ==
    /\ src = [vid \in Ids |-> {EnvNone}]
    /\ passes = 0
    /\ store = [d \in Dirs |-> [vid \in Ids |-> EmptyFolder]]
    /\ lastRun = Absent
    /\ tmp = {}
    /\ stage = "idle"
    /\ todo = <<>>
    /\ stats = NoStats
    /\ calls = {}
    /\ models = 0
    /\ snap = store
    /\ fresh = FALSE
    /\ exit = "ok"
    /\ renv = EnvNone
    /\ rres = NoResult
    /\ out = NoOutput
    /\ written = <<>>
    /\ arg = NoArg
    /\ ret = NoRet

FeedNext == FeedFatal \/ FeedStart \/ FeedItem \/ FeedFinish

FeedSpec == FeedInit /\ [][FeedNext]_vars

\* safe_name and the folder names on their own: any title, date and id.
NameArgs ==
    {[fn |-> "folder_name", date |-> d, title |-> t, vid |-> v] :
        d \in Dates, t \in Titles, v \in Ids}

NameInit ==
    /\ src = [vid \in Ids |-> {EnvNone}]
    /\ passes = 0
    /\ store = [d \in Dirs |-> [vid \in Ids |-> EmptyFolder]]
    /\ lastRun = Absent
    /\ tmp = {}
    /\ stage = "idle"
    /\ todo = <<>>
    /\ stats = NoStats
    /\ calls = {}
    /\ models = 0
    /\ snap = store
    /\ fresh = FALSE
    /\ exit = "ok"
    /\ renv = EnvNone
    /\ rres = NoResult
    /\ out = NoOutput
    /\ written = <<>>
    /\ arg \in NameArgs
    /\ ret = NoRet

NameFolder ==
    /\ ret = NoRet
    /\ ret' = [fn |-> "folder_name",
               safe |-> safe_name(arg.title),
               fyt |-> fyt_folder_name(arg.date, arg.title, arg.vid),
               fat |-> fat_folder_name(arg.title, arg.vid),
               id |-> folder_id(fyt_folder_name(arg.date, arg.title, arg.vid))]
    /\ UNCHANGED <<src, store, lastRun, tmp, stage, todo, stats, calls, models,
                   snap, fresh, exit, passes, renv, rres, out, written, arg>>

NameNext == NameFolder

NameSpec == NameInit /\ [][NameNext]_vars

\* The three listers on their own: any listing, any limit, one call.

ListerArgs ==
    {[fn |-> f, chan |-> c, limit |-> k, flatOk |-> a, fullOk |-> b] :
        f \in {"list_videos", "run_yt_dlp_list"}, c \in Listings, k \in Limits,
        a \in BOOLEAN, b \in BOOLEAN}
    \cup {[fn |-> "transcribe", chan |-> c, limit |-> k, flatOk |-> TRUE, fullOk |-> TRUE] :
              c \in Listings, k \in Limits \cup {None}}

ListerInit ==
    /\ src = [vid \in Ids |-> {EnvNone}]
    /\ passes = 0
    /\ store = [d \in Dirs |-> [vid \in Ids |-> EmptyFolder]]
    /\ lastRun = Absent
    /\ tmp = {}
    /\ stage = "idle"
    /\ todo = <<>>
    /\ stats = NoStats
    /\ calls = {}
    /\ models = 0
    /\ snap = store
    /\ fresh = FALSE
    /\ exit = "ok"
    /\ renv = EnvNone
    /\ rres = NoResult
    /\ out = NoOutput
    /\ written = <<>>
    /\ arg \in ListerArgs
    /\ ret = NoRet

Returned(fn, r) == [fn |-> fn, exit |-> r.exit, value |-> r.value]

ListVideos ==
    /\ ret = NoRet
    /\ arg.fn = "list_videos"
    /\ ret' = Returned(arg.fn, list_videos(arg.chan, arg.limit, arg.flatOk, arg.fullOk))
    /\ UNCHANGED <<src, store, lastRun, tmp, stage, todo, stats, calls, models,
                   snap, fresh, exit, passes, renv, rres, out, written, arg>>

RunYtDlpList ==
    /\ ret = NoRet
    /\ arg.fn = "run_yt_dlp_list"
    /\ ret' = Returned(arg.fn, run_yt_dlp_list(arg.chan, arg.limit, arg.flatOk))
    /\ UNCHANGED <<src, store, lastRun, tmp, stage, todo, stats, calls, models,
                   snap, fresh, exit, passes, renv, rres, out, written, arg>>

LimitEpisodes ==
    /\ ret = NoRet
    /\ arg.fn = "transcribe"
    /\ ret' = Returned(arg.fn, Return(limit_episodes(arg.chan, arg.limit)))
    /\ UNCHANGED <<src, store, lastRun, tmp, stage, todo, stats, calls, models,
                   snap, fresh, exit, passes, renv, rres, out, written, arg>>

ListerNext == ListVideos \/ RunYtDlpList \/ LimitEpisodes

ListerSpec == ListerInit /\ [][ListerNext]_vars

\* ------------------------------------------------------------------ claims
Range(seq) == {seq[i] : i \in 1..Len(seq)}

\* C1: a transcript.txt that existed when a pass started keeps its content
\* through the pass, and the pass makes no external call for its item.
C1_ExistingTranscriptUntouched ==
    /\ \A d \in Dirs, vid \in Ids :
          snap[d][vid].transcript # Absent =>
              store[d][vid].transcript = snap[d][vid].transcript
    /\ \A c \in calls : snap[c.dir][c.id].transcript = Absent

\* A pass of each kind has walked past a folder whose transcript existed.
C1_Witness ==
    /\ stage = "fyt"
    /\ todo = <<>>
    /\ \E vid \in Range(stats.processed_ids) : snap[FytOutdir][vid].transcript # Absent

\* The second of two consecutive primary passes has processed its last
\* item: the same ids were listed and every source answers in one way only.
SecondRunDone ==
    /\ stage = "fyt"
    /\ todo = <<>>
    /\ fresh
    /\ lastRun # Absent
    /\ stats.processed_ids = lastRun.processed_ids
    /\ \A vid \in Ids : Cardinality(src[vid]) = 1

\* C2 as stated: after the second run the store, last_run.json included, is
\* what it was after the first, and the second run made no external call.
C2_SecondRunIdentical ==
    SecondRunDone => /\ store = snap
                     /\ stats = lastRun
                     /\ calls = {}

\* C2 amended: the item folders are what they were after the first run,
\* last_run.json differs at most in its saved counter, which is 0, and the
\* second run makes external calls only for items without transcript.txt.
C2_SecondRunSettled ==
    SecondRunDone => /\ store = snap
                     /\ [stats EXCEPT !.saved = lastRun.saved] = lastRun
                     /\ stats.saved = 0
                     /\ \A c \in calls : snap[c.dir][c.id].transcript = Absent

\* A second run over one item saved by the first and one it could not save.
C2_Witness ==
    /\ SecondRunDone
    /\ lastRun.saved > 0
    /\ calls # {}

\* What the resolver answers for a video of the primary specification.
Answer(vid) == fetch_transcript_chunks(CHOOSE e \in src[vid] : TRUE)
Attempted(vid) == snap[FytOutdir][vid].transcript = Absent
Soft(r) == r.kind \in {"TranscriptsDisabled", "NoTranscriptFound"}
Positions(ids, P(_)) == Cardinality({k \in 1..Len(ids) : P(ids[k])})
FailsHard(vid) == Attempted(vid) /\ Answer(vid).kind = "Exception"
FailsSoft(vid) == Attempted(vid) /\ Soft(Answer(vid))
Resolves(vid) == Attempted(vid) /\ Answer(vid).kind = "chunks"

\* C3: a primary pass ends only after its last item, with every listed item
\* in processed_ids, one error counted per failing attempt, every other
\* item's outcome decided by its own source alone, and last_run.json written.
C3_FailureIsolated ==
    [][(stage = "fyt" /\ stage' # "fyt") =>
          /\ todo = <<>>
          /\ Len(stats.processed_ids) = stats.total_listed
          /\ stats.errors = Positions(stats.processed_ids, FailsHard)
          /\ stats.no_transcript = Positions(stats.processed_ids, FailsSoft)
          /\ stats.saved = Cardinality({vid \in Range(stats.processed_ids) : Resolves(vid)})
          /\ \A vid \in Range(stats.processed_ids) :
                /\ Resolves(vid) =>
                      store[FytOutdir][vid].transcript = chunks_to_text(Answer(vid))
                /\ FailsSoft(vid) =>
                      /\ store[FytOutdir][vid].transcript = Absent
                      /\ store[FytOutdir][vid].notrans # Absent
                /\ FailsHard(vid) =>
                      /\ store[FytOutdir][vid].transcript = Absent
                      /\ store[FytOutdir][vid].error # Absent
          /\ \A vid \in Ids \ Range(stats.processed_ids) :
                store[FytOutdir][vid] = snap[FytOutdir][vid]
          /\ lastRun' = stats]_vars

\* The first of two listed items failed and the second was saved.
C3_Witness ==
    /\ stage = "fyt"
    /\ todo = <<>>
    /\ Len(stats.processed_ids) = 2
    /\ FailsHard(stats.processed_ids[1])
    /\ stats.errors = 1
    /\ stats.saved = 1

\* What records a failed audio download in an item folder: an ERROR.txt, or
\* the marker of fetch_and_transcribe_youtube.py:139.
DownloadFailureRecorded(folder) ==
    \/ folder.error # Absent
    \/ folder.notrans = Content("marker", "Could not download audio", 0)

\* C4: a step in which an audio download fails records the failure in the
\* item's folder and leaves the pass running.
C4_DownloadFailureIsolated ==
    [][\A c \in calls' \ calls :
          (c.kind = "audio_download" /\ ~c.ok) =>
              /\ stage' = stage
              /\ DownloadFailureRecorded(store'[c.dir][c.id])]_vars

\* C5: a transcript.txt that exists holds a complete transcript.
C5_TranscriptComplete ==
    \A d \in Dirs, vid \in Ids :
        LET t == store[d][vid].transcript
        IN  t # Absent => (t # NoText /\ t.by # "partial")

IsGap(folder) == folder.notrans # Absent /\ folder.transcript = Absent

\* C6: a fallback pass that runs right after a primary pass reaches every
\* item the primary pass listed and left with NO_TRANSCRIPT.txt and no
\* transcript.txt.
C6_GapFoundByFallback ==
    (stage \in {"fmc", "fwy", "wfm"} /\ todo = <<>> /\ fresh) =>
        \A vid \in Range(lastRun.processed_ids) :
            IsGap(snap[FytOutdir][vid]) => \E c \in calls : c.id = vid

\* C7: between passes no folder holds both transcript.txt and
\* NO_TRANSCRIPT.txt.
C7_NoMarkerBesideTranscript ==
    stage = "idle" =>
        \A d \in Dirs, vid \in Ids :
            ~(store[d][vid].transcript # Absent /\ store[d][vid].notrans # Absent)

\* C10: one pass constructs the speech-recognition model at most once.
C10_ModelLoadedOnce == models <= 1

\* The outcome the caption API gave the fetch recorded in rres.tried.
Fetched(a) ==
    CASE a[1] = "manual" -> renv.manual[a[2]]
      [] a[1] = "auto" -> renv.auto[a[2]]
      [] a[1] = "translate" -> renv.tracks[a[2]]
      [] a[1] = "get_transcript" -> renv.legacy[a[2]]
      [] OTHER -> renv.legacyAny
Rank(a) == CASE a[1] = "manual" -> 1 [] a[1] = "auto" -> 2 [] OTHER -> 3
Hits(outs) == {i \in 1..Len(outs) : outs[i] = "hit"}
Least(S) == CHOOSE i \in S : \A j \in S : i <= j

\* C8: with list_transcripts available, the fetches are made in the order
\* manual (by language), automatic (by language), translation (by track);
\* the result is the first manual track that can be fetched, else the first
\* automatic one, else the first translation, else NoTranscriptFound; and a
\* manual fetch that yields nothing never keeps the automatic one from
\* being tried.
C8_FallbackOrder ==
    (rres # NoResult /\ renv.list = "ok") =>
        LET m == Hits(renv.manual)
            a == Hits(renv.auto)
            t == Hits(renv.tracks)
            n == Len(rres.tried)
        IN  /\ \A i, j \in 1..n :
                  i < j => \/ Rank(rres.tried[i]) < Rank(rres.tried[j])
                           \/ /\ Rank(rres.tried[i]) = Rank(rres.tried[j])
                              /\ rres.tried[i][2] < rres.tried[j][2]
            /\ \A i \in 1..n : Fetched(rres.tried[i]) = "hit" => i = n
            /\ m # {} => rres = Result("chunks", "manual", Least(m), rres.tried)
            /\ (m = {} /\ a # {}) => rres = Result("chunks", "auto", Least(a), rres.tried)
            /\ (m = {} /\ a = {} /\ t # {}) =>
                  rres = Result("chunks", "translated", Least(t), rres.tried)
            /\ (m = {} /\ a = {} /\ t = {}) => rres.kind = "NoTranscriptFound"
            /\ m = {} => \A i \in 1..Len(langs) : <<"manual", i>> \in Range(rres.tried)
            /\ m = {} => <<"auto", 1>> \in Range(rres.tried)
            /\ (m = {} /\ a = {}) =>
                  \A i \in 1..Len(renv.tracks) :
                      (renv.tracks[i] # "fixed" /\ (t = {} \/ i <= Least(t)))
                          => <<"translate", i>> \in Range(rres.tried)

\* Only a translation could be fetched, and it was returned.
C8_Witness ==
    /\ rres.kind = "chunks"
    /\ rres.by = "translated"
    /\ \A i \in 1..Len(langs) : renv.manual[i] = "miss" /\ renv.auto[i] = "miss"

\* C9: a candidate fetch that fails otherwise than by "no captions of this
\* kind" is the last one made, and the resolution ends in an error.
C9_HardFailureEndsResolution ==
    rres # NoResult =>
        \A i \in 1..Len(rres.tried) :
            Fetched(rres.tried[i]) = "err" =>
                /\ i = Len(rres.tried)
                /\ rres.kind = "Exception"

\* C11: once the processing of an item has ended, on whatever path, its
\* temporary audio file is gone: between two steps tmp_audio holds no file.
C11_TempAudioRemoved == tmp = {}

\* C12: a primary pass starts its counters at zero, and when its loop is over
\* it writes last_run.json from them whatever they are: the summary counts
\* the items this pass saved, marked or failed on, and nothing of the
\* summary that was there before.
C12_SummaryWrittenFresh ==
    [][/\ (stage # "fyt" /\ stage' = "fyt") =>
             /\ stats'.saved = 0
             /\ stats'.no_transcript = 0
             /\ stats'.errors = 0
             /\ stats'.processed_ids = <<>>
       /\ (stage = "fyt" /\ stage' # "fyt") =>
             /\ lastRun' = stats
             /\ Len(stats.processed_ids) = stats.total_listed
             /\ stats.saved =
                   Cardinality({vid \in Ids : /\ snap[FytOutdir][vid].transcript = Absent
                                              /\ store[FytOutdir][vid].transcript # Absent})
             /\ LET attempted == stats.saved + stats.no_transcript + stats.errors
                    open(vid) == snap[FytOutdir][vid].transcript = Absent
                IN  /\ attempted <= Positions(stats.processed_ids, open)
                    /\ attempted >=
                          Cardinality({vid \in Range(stats.processed_ids) : open(vid)})]_vars

\* A pass that saved nothing is about to replace a summary that counted a
\* saved item.
C12_Witness ==
    /\ stage = "fyt"
    /\ todo = <<>>
    /\ stats.total_listed > 0
    /\ stats.saved = 0
    /\ lastRun # Absent
    /\ lastRun.saved > 0

\* C13: a primary pass that ends on a fatal source error ends with a
\* non-zero exit before its loop: no folder and no file of the store is
\* created or changed, no item is processed, and last_run.json is what the
\* last completed pass wrote.
C13_FatalLeavesStore ==
    [][exit' = "fatal" =>
          /\ stage = "idle"
          /\ stage' = "idle"
          /\ store' = store
          /\ lastRun' = lastRun
          /\ calls' = calls
          /\ stats' = stats]_vars

\* A pass ended fatally after an earlier pass had filled the store and
\* written its summary.
C13_Witness ==
    /\ exit = "fatal"
    /\ lastRun # Absent
    /\ lastRun.saved > 0
    /\ \E vid \in Ids : store[FytOutdir][vid].transcript # Absent

\* C14: a listing that succeeds with zero entries makes list_videos return
\* the empty sequence and not end the process.
C14_EmptyChannelIsValid ==
    (ret # NoRet /\ ret.fn = "list_videos" /\ arg.chan = <<>>
         /\ (arg.flatOk \/ arg.fullOk)) =>
        /\ ~ret.exit
        /\ ret.value = <<>>

\* C18: a lister that returns hands on every listed item when the limit is 0
\* (or not given) and the first min(k, n) of them in order when it is k > 0.
C18_LimitZeroUnbounded ==
    (ret # NoRet /\ ~ret.exit) =>
        ret.value = IF arg.limit = 0 \/ arg.limit = None THEN arg.chan
                    ELSE Take(arg.chan, arg.limit)

\* C15: a per-episode file of fetch_transcripts.py that holds a transcript
\* written by an earlier run (the running pass has not fetched its video
\* yet) is not replaced by the placeholder section.
C15_EpisodeFileKept ==
    [][\A vid \in Ids :
          (/\ out.episodes[vid].by = "text"
           /\ ~\E c \in calls : c.dir = "episodes" /\ c.id = vid)
              => out'.episodes[vid].by = "text"]_vars

\* C16: the list transcribe returns holds exactly the paths of the
\* transcripts this call wrote.
C16_ReturnsCreatedPaths ==
    (stage = "idle" /\ ret # NoRet /\ ~ret.exit) =>
        Range(ret.value) =
            {slug(FeedEpisodes[c.id]) : c \in {d \in calls : d.kind = "transcribe" /\ d.ok}}

\* C17: a step of transcribe in which the download or the transcription of
\* an episode fails goes on to the next episode and keeps what was written.
C17_EpisodeFailureIsolated ==
    [][(stage = "rss" /\ \E c \in calls' \ calls : ~c.ok) =>
          /\ stage' = "rss"
          /\ todo' = Tail(todo)
          /\ written' = written]_vars

EndsWith(s, suffix) ==
    /\ Len(s) >= Len(suffix)
    /\ SubSeq(s, Len(s) - Len(suffix) + 1, Len(s)) = suffix

\* C19: safe_name(title) holds none of / \ : * ? " < > | and at most 160
\* characters, and both folder names end with the whole of " [id]".
C19_SafeFolderName ==
    ret # NoRet =>
        LET suffix == Str(" ") \o Str("[") \o Str(ToString(arg.vid)) \o Str("]")
        IN  /\ ~HasChar(ret.safe, {"/", "\\", ":", "*", "?", "\"", "<", ">", "|"})
            /\ StrLen(ret.safe) <= 160
            /\ EndsWith(ret.fyt, suffix)
            /\ EndsWith(ret.fat, suffix)

\* A title of more than 160 characters with path-unsafe ones was cut to 160.
C19_Witness ==
    /\ ret # NoRet
    /\ StrLen(arg.title) > 160
    /\ HasChar(arg.title, {"/"})
    /\ StrLen(ret.safe) = 160

\* C20: whenever whisper_fill_missing may start, find_missing_folders returns
\* every folder of its directory that has NO_TRANSCRIPT.txt and no
\* transcript.txt exactly once, and no other folder.
C20_MissingExact ==
    stage = "idle" =>
        \A vid \in Ids :
            Positions(Missing, LAMBDA v : v = vid) =
                IF IsGap(store[WfmOutdir][vid]) THEN 1 ELSE 0

\* The positions of a finished primary pass (sources answering in one way
\* only) at which the item was skipped: its transcript.txt was there when
\* the pass started, or an earlier position of the same pass had saved it.
Skipped(ids) ==
    Positions(ids, LAMBDA v : ~Attempted(v))
    + (Positions(ids, Resolves) - Cardinality({vid \in Range(ids) : Resolves(vid)}))

Counted(s) == s.saved + s.no_transcript + s.errors

\* C23: every iteration of the primary loop appends its item to
\* processed_ids and then either skips it because transcript.txt exists,
\* leaving the counters alone, or adds one to exactly one of saved,
\* no_transcript and errors; when the loop is over len(processed_ids) is
\* total_listed and the three counters add up to total_listed minus the
\* number of skipped items.
C23_EachItemCountedOnce ==
    [][/\ (stage = "fyt" /\ stage' = "fyt" /\ todo' # todo) =>
             LET vid == Head(todo)
             IN  /\ stats'.processed_ids = Append(stats.processed_ids, vid)
                 /\ stats'.saved >= stats.saved
                 /\ stats'.no_transcript >= stats.no_transcript
                 /\ stats'.errors >= stats.errors
                 /\ Counted(stats') =
                       Counted(stats)
                       + (IF store[FytOutdir][vid].transcript # Absent THEN 0 ELSE 1)
       /\ (stage = "fyt" /\ stage' # "fyt") =>
             /\ Len(stats.processed_ids) = stats.total_listed
             /\ Counted(stats) = stats.total_listed - Skipped(stats.processed_ids)]_vars

\* A pass over two items is over: one was skipped because an earlier pass
\* had saved it, the other was counted.
C23_Witness ==
    /\ stage = "fyt"
    /\ todo = <<>>
    /\ stats.total_listed = 2
    /\ Counted(stats) = 1
    /\ \E vid \in Range(stats.processed_ids) : ~Attempted(vid)

\* A folder the fallback passes have to leave alone: it has transcript.txt,
\* or it has no NO_TRANSCRIPT.txt (it may have ERROR.txt only).
Settled(folder) == folder.transcript # Absent \/ folder.notrans = Absent

\* C26: while a fallback pass runs, every folder that was settled when the
\* pass started holds exactly the files it held then, and the pass has made
\* no external call for it.
C26_SettledFoldersUntouched ==
    stage \in {"fmc", "fwy", "wfm"} =>
        \A d \in Dirs, vid \in Ids :
            Settled(snap[d][vid]) =>
                /\ store[d][vid] = snap[d][vid]
                /\ ~\E c \in calls : c.dir = d /\ c.id = vid

\* A caption-download pass has gone over a folder that carries ERROR.txt
\* only, and has made a call for another folder.
C26_Witness ==
    /\ stage \in {"fmc", "fwy"}
    /\ todo = <<>>
    /\ calls # {}
    /\ \E vid \in Ids : /\ snap[FwyOutdir][vid].error # Absent
                         /\ snap[FwyOutdir][vid].notrans = Absent
                         /\ snap[FwyOutdir][vid].transcript = Absent

\* C25: a step in which a speech-to-text attempt raises leaves the item a
\* gap that the next run of the same stage selects: no transcript.txt, and
\* for whisper_fill_missing the marker NO_TRANSCRIPT.txt still there.
C25_FailedAttemptStaysGap ==
    [][\A c \in calls' \ calls :
          (c.kind = "transcribe" /\ ~c.ok /\ c.dir \in Dirs) =>
              /\ store'[c.dir][c.id].transcript = Absent
              /\ stage = "fat" => ~fat_skip(store'[c.dir][c.id])
              /\ stage = "wfm" => ~wfm_skip(store'[c.dir][c.id])]_vars

\* C28: whenever transcribe processes an episode whose output path already
\* holds a file, skipping it or writing over it, that file is the transcript
\* of this very episode and of no other one.
C28_OwnOutputFile ==
    [][(stage = "rss" /\ todo # <<>> /\ todo' = Tail(todo)) =>
          LET episode == Head(todo)
              target_path == slug(FeedEpisodes[episode])
          IN  out.rss[target_path] # Absent => out.rss[target_path].idx = episode]_vars

ResolvesNow(vid) == \A env \in src[vid] : fetch_transcript_chunks(env).kind = "chunks"

\* C24: an iteration of the primary loop over an item without transcript.txt
\* fetches its captions whatever markers its folder holds, and saves them
\* when the source succeeds; so, the pass being rerun again and again, an
\* item whose source succeeds from some time on gets its transcript.txt.
C24_MarkedItemRetried ==
    /\ [][(stage = "fyt" /\ todo # <<>> /\ todo' = Tail(todo)
              /\ store[FytOutdir][Head(todo)].transcript = Absent) =>
              /\ \E c \in calls' : c.id = Head(todo) /\ c.kind = "caption_fetch"
              /\ ResolvesNow(Head(todo)) =>
                    store'[FytOutdir][Head(todo)].transcript # Absent]_vars
    /\ \A vid \in Ids :
          ResolvesNow(vid) ~> (store[FytOutdir][vid].transcript # Absent)

\* One item carrying NO_TRANSCRIPT.txt and one carrying ERROR.txt have both
\* got their transcript.txt on a later run.
C24_Witness ==
    /\ \E vid \in Ids : /\ store[FytOutdir][vid].notrans # Absent
                         /\ store[FytOutdir][vid].transcript # Absent
    /\ \E vid \in Ids : /\ store[FytOutdir][vid].error # Absent
                         /\ store[FytOutdir][vid].transcript # Absent

\* C27: the id the fallback passes read off the folder name the primary
\* pass made for an item is the id of the item, whatever the title holds.
C27_FolderIdExtracted ==
    ret # NoRet => ret.id = IdStr(arg.vid)

\* The name was made from a title that holds both brackets.
C27_Witness ==
    /\ ret # NoRet
    /\ HasChar(arg.title, {"["})
    /\ HasChar(arg.title, {"]"})
    /\ ret.id = IdStr(arg.vid)

\* The lines of spoken text of a file, in order, without their markup tags.
RECURSIVE Spoken(_)
Spoken(cues) ==
    IF cues = <<>> THEN <<>>
    ELSE [i \in 1..Len(Head(cues).payload) |->
             SelectSeq(Head(cues).payload[i], LAMBDA t : ~IsTag(t))]
         \o Spoken(Tail(cues))

\* C22: vtt_to_txt returns the lines of spoken text of the file in their
\* order with the tags removed, and nothing else: no header line, no cue
\* number, no timing line in either timestamp form; and no line of spoken
\* text is left out, one made of digits included.
C22_SpokenTextExact ==
    ret # NoRet => ret.value = Spoken(arg.file.cues)

\* The folders of OUTDIR whose name carries the id.
FoldersOf(dir, vid) ==
    {name \in FolderNames : IsDir(dir[name]) /\ folder_id(name) = IdStr(vid)}

\* C21: the store never holds two directories for one item id, and a pass
\* makes no fetch for an item that had a directory with transcript.txt when
\* the pass started, whatever title and date the listing reports for it.
C21_OneFolderPerId ==
    /\ \A vid \in Ids : Cardinality(FoldersOf(store[FytOutdir], vid)) <= 1
    /\ \A c \in calls :
          \A name \in FoldersOf(snap[FytOutdir], c.id) :
              snap[FytOutdir][name].transcript = Absent

====
